---- MODULE Spec2Model ----
(***************************************************************************)
(* Model of the damage-assessment core of ai_damage_detector.py:           *)
(*   - DamageDetector.analyze_tile, the batch loop and the reconciliation  *)
(*     of the remote classifier's response (lines 396-487);                *)
(*   - DamageDetector._call_gemini, the retry loop (lines 94-140).         *)
(*   - DamageDetector.analyze_tile, steps 1 to 5: the label document, the  *)
(*     estimated bounds and the pixel boxes (lines 257-384);               *)
(*   - DamageDetector.__init__, the credential (lines 55-72).              *)
(*                                                                         *)
(* Python dicts are objects: all_results holds REFERENCES to the response  *)
(* records, and `result['uid'] = uid` writes into the record itself.  The  *)
(* reconciliation loop is therefore modelled on a store of records (recs)  *)
(* and a list of references (refs); the values of all_results are read off *)
(* the store once the loop has finished.                                   *)
(***************************************************************************)
EXTENDS Integers, Sequences, FiniteSets, TLC

(***************************************************************************)
(* Bounds of the model.                                                    *)
(***************************************************************************)
MaxBuildings == 3      \* buildings with a valid pixel box in a tile
MaxBatchSize == 3      \* batch_size argument of analyze_tile
MaxRespLen   == 1      \* records in one response, tile of several batches
MaxSoloLen   == 3      \* records in one response, tile of a single batch
MaxRetries   == 3      \* retries argument of _call_gemini
MaxPolygons  == 2      \* entries of the label document's lng_lat list
MaxCoord     == 3      \* bounds and vertices of the projection on its own
MaxExtent    == 5      \* coordinates of the polygons the margins are tried on
MaxMargin    == 3      \* margins tried, in 1 / MarginDen
MaxPieces    == 2      \* pieces of the text around a fenced payload
MaxLabelled  == 1      \* polygons of a list of a label file
MaxRuns      == 2      \* runs of strip_labels

(***************************************************************************)
(* Constants of the program.                                               *)
(***************************************************************************)
MarginNum  == 1        \* margin = 0.10 = MarginNum / MarginDen
MarginDen  == 10
MinBoxSize == 5        \* pixel boxes narrower or lower than this are dropped

VARIABLES
    buildings_with_bbox, \* analyze_tile: the projected building list
    batch_size,          \* analyze_tile: argument
    progress_callback,   \* analyze_tile: argument; None, or what a call of
                         \* it does
    pc,                  \* analyze_tile: position in the batch loop
    batch_idx,           \* analyze_tile: loop variable (0-based offset)
    all_results,         \* analyze_tile: the result list (values)
    batch_results,       \* analyze_tile: what classify_batch gave for the
                         \* current batch, as received (before the loop
                         \* writes uids into its records); kept until the
                         \* batch is over
    seg_start,           \* len(all_results) when the current batch began
    progress,            \* the calls progress_callback has received
    sleeps,              \* the pacing waits of the batch loop, in order
    submitted,           \* the batches handed to classify_batch, in order
    events,              \* analyze_tile: callback calls, classify_batch
                         \* calls, appends and pacing waits, in order
    label_data,          \* analyze_tile: the label document
    polygons,            \* analyze_tile: its lng_lat list
    img_w, img_h,        \* analyze_tile: size of the pre-disaster image
    parsed_polygons,     \* analyze_tile: the entries that parsed
    min_lng, max_lng,    \* analyze_tile: estimated bounds of the tile,
    min_lat, max_lat,    \*   in 1 / MarginDen of the coordinate unit
    geo_error,           \* analyze_tile: the exception steps 1-5 raised
    retries,             \* _call_gemini: argument
    contents,            \* _call_gemini: argument
    attempt,             \* _call_gemini: loop variable
    log,                 \* _call_gemini: remote calls and sleeps, in order
    call_state,          \* _call_gemini: running / how it ended
    api_key,             \* __init__: argument
    GOOGLE_API_KEY,      \* __init__: the environment variable
    client,              \* __init__: self.client
    init_state,          \* __init__: not yet run / how it ended
    vertices,            \* the projection on its own: (lng, lat) of the
                         \* vertices, in the unit of the bounds
    px_coords,           \* analyze_tile: (px_x, px_y) of the vertices, each
                         \* times its range
    margins,             \* the estimate on its own: the values of margin
                         \* it is computed with, in 1 / MarginDen
    estimates,           \* per margin: the bounds, and the pixel box of
                         \* every parsed polygon
    response_text,       \* _call_gemini: response.text, a sequence of
                         \* characters
    wrapped,             \* the payload, fence and text response_text was
                         \* made of
    json_value,          \* _call_gemini: what json.loads returned or raised
    FEMA_DIR,            \* strip_labels: the label files of the directory,
                         \* by name
    GROUND_TRUTH_DIR,    \* strip_labels: the files of the answer key
    originals,           \* the files of FEMA_DIR before the first run
    runs                 \* runs of strip_labels so far

vars == <<buildings_with_bbox, batch_size, progress_callback, submitted,
          pc, batch_idx, all_results,
          batch_results, seg_start, progress, sleeps, events, label_data,
          polygons, img_w, img_h, parsed_polygons, min_lng, max_lng, min_lat,
          max_lat, geo_error, retries, contents, attempt, log, call_state,
          api_key, GOOGLE_API_KEY, client, init_state, vertices, px_coords,
          margins, estimates, response_text, wrapped, json_value,
          FEMA_DIR, GROUND_TRUTH_DIR, originals, runs>>

tileVars == <<buildings_with_bbox, batch_size, progress_callback, submitted,
              pc, batch_idx, all_results,
              batch_results, seg_start, progress, sleeps, events>>
geoVars == <<label_data, polygons, img_w, img_h, parsed_polygons, min_lng,
             max_lng, min_lat, max_lat, geo_error>>
callVars == <<retries, contents, attempt, log, call_state>>
initVars == <<api_key, GOOGLE_API_KEY, client, init_state>>
funVars == <<vertices, px_coords, margins, estimates,
             response_text, wrapped, json_value,
             FEMA_DIR, GROUND_TRUTH_DIR, originals, runs>>

(***************************************************************************)
(* Values.                                                                 *)
(***************************************************************************)
\* uid of the i-th building of the tile: unique within the tile.
UidNames == <<"b1", "b2", "b3", "b4", "b5", "b6">>
UidOf(i) == UidNames[i]

\* r.get('uid', ''): the key of a record that carries no uid.
NoUid == ""
\* a uid that no building of the tile bears.
OtherUid == "zz"

\* The labels the prompt allows, and the sentinel of analyze_tile.
PromptLabels == {"no-damage", "minor-damage", "destroyed"}
Vocabulary   == PromptLabels \cup {"un-classified"}

\* A damage value that is a JSON array or object: set() cannot hash it.
Unhashable == "<array>"

\* What the remote model may put in the damage field of a record: a label
\* of the prompt, a label outside it, the sentinel, a value that is no string.
ModelDamage == {"destroyed", "major-damage", "un-classified", Unhashable}

\* Confidence in tenths; the model's records come with 0.9.
ModelConfidence == {9}

\* Free text of the i-th record of a response: distinct per record, so the
\* text of an output entry tells which record of the response it is.
DescNames == <<"r1", "r2", "r3", "r4", "r5", "r6">>

\* An element of a JSON array that is not an object (a number, a string).
Scalar == [scalar |-> TRUE]
IsDict(r) == "uid" \in DOMAIN r

Min(a, b) == IF a < b THEN a ELSE b

(***************************************************************************)
(* analyze_tile, STEP 6: batch arithmetic (lines 396-402).                 *)
(***************************************************************************)
\* total_batches rounded down.
total_batches_floor == Len(buildings_with_bbox) \div batch_size

total_batches == (Len(buildings_with_bbox) + batch_size - 1) \div batch_size
batch_end == Min(batch_idx + batch_size, Len(buildings_with_bbox))
batch_num == (batch_idx \div batch_size) + 1
batch_buildings == SubSeq(buildings_with_bbox, batch_idx + 1, batch_end)

(***************************************************************************)
(* analyze_tile, result validation (lines 416-441).                        *)
(***************************************************************************)
\* result_by_uid = {r.get('uid', ''): r for r in batch_results}: a later
\* record replaces an earlier one under the same key.  The value is the
\* position (1-based) of the record in the response, i.e. a reference.
result_by_uid(resp) ==
    [u \in {resp[j].uid : j \in DOMAIN resp} |->
        CHOOSE j \in DOMAIN resp :
            /\ resp[j].uid = u
            /\ \A k \in DOMAIN resp : resp[k].uid = u => k <= j]

\* batch_buildings.index(b): 0-based position of the first equal element.
index(batch, b) ==
    (CHOOSE k \in DOMAIN batch :
        batch[k] = b /\ \A m \in DOMAIN batch : batch[m] = b => k <= m) - 1

\* PickRecord with the index tried before the uid.
PickRecordIndexFirst(resp, batch, b) ==
    LET rbu == result_by_uid(resp)
        idx == index(batch, b)
    IN  IF idx < Len(resp) THEN idx + 1
        ELSE IF b.uid \in DOMAIN rbu THEN rbu[b.uid]
        ELSE 0

\* PickRecord with the index clamped to the last record of the response.
PickRecordClamped(resp, batch, b) ==
    LET rbu == result_by_uid(resp)
        idx == index(batch, b)
    IN  IF b.uid \in DOMAIN rbu THEN rbu[b.uid]
        ELSE IF idx < Len(resp) THEN idx + 1
        ELSE Len(resp)

\* The record building b is given: the reference (position in the response)
\* of the uid match, else of the record at b's index, else 0 (none).
PickRecord(resp, batch, b) ==
    LET rbu == result_by_uid(resp)
        idx == index(batch, b)
    IN  IF b.uid \in DOMAIN rbu THEN rbu[b.uid]
        ELSE IF idx < Len(resp) THEN idx + 1
        ELSE 0

\* The record appended for a building the model gave no record for.
MissedRecord(uid) ==
    [uid |-> uid, damage |-> "un-classified", confidence |-> 0,
     description |-> "AI did not return result for this building"]

\* The record appended when the response is not a list.
UnexpectedRecord(uid) ==
    [uid |-> uid, damage |-> "un-classified", confidence |-> 0,
     description |-> "Unexpected API response format"]

\* The record appended by the except handler.
ErrorRecord(uid) ==
    [uid |-> uid, damage |-> "un-classified", confidence |-> 0,
     description |-> "Error"]

\* The loop `for b in batch_buildings` from building i on.  recs is the
\* store of response records (uids are overwritten in place), refs the
\* entries appended so far: a reference into recs, or a fresh record.
RECURSIVE ReconcileLoop(_, _, _, _, _)
ReconcileLoop(resp, batch, i, recs, refs) ==
    IF i > Len(batch) THEN <<recs, refs>>
    ELSE LET b == batch[i]
             j == PickRecord(resp, batch, b)
         IN  IF j > 0
             THEN ReconcileLoop(resp, batch, i + 1,
                      [recs EXCEPT ![j].uid = b.uid],
                      Append(refs, [ref |-> j]))
             ELSE ReconcileLoop(resp, batch, i + 1, recs,
                      Append(refs, [ref |-> 0, rec |-> MissedRecord(b.uid)]))

\* The entries of all_results the loop appended, read once it has ended.
Reconciled(resp, batch) ==
    LET end  == ReconcileLoop(resp, batch, 1, resp, <<>>)
        recs == end[1]
        refs == end[2]
    IN  [i \in 1..Len(refs) |->
            IF refs[i].ref > 0 THEN recs[refs[i].ref] ELSE refs[i].rec]

\* ErrorRecords with the handler stopping after the first building.
ErrorRecordsFirst(batch) ==
    [i \in 1..Min(1, Len(batch)) |-> ErrorRecord(batch[i].uid)]

\* `for b in batch_buildings: all_results.append({... 'Error: ...'})`.
ErrorRecords(batch) == [i \in 1..Len(batch) |-> ErrorRecord(batch[i].uid)]

\* `for b in batch_buildings: all_results.append({... 'Unexpected ...'})`.
UnexpectedRecords(batch) == [i \in 1..Len(batch) |-> UnexpectedRecord(batch[i].uid)]

\* The try block for a response that is a list, with its except handler:
\*  - an element that is no object makes r.get fail in the comprehension of
\*    line 418, before anything is appended;
\*  - a damage value that cannot be hashed makes set(damages) fail on line
\*    445, after the loop has appended its records.
\* In both cases the handler appends one ErrorRecord per building.
HandleList(resp, batch) ==
    IF \E j \in DOMAIN resp : ~IsDict(resp[j])
    THEN ErrorRecords(batch)
    ELSE IF \E j \in DOMAIN resp : resp[j].damage = Unhashable
    THEN Reconciled(resp, batch) \o ErrorRecords(batch)
    ELSE Reconciled(resp, batch)

(***************************************************************************)
(* analyze_tile, steps 1 to 5: the label document, the estimated bounds    *)
(* and the pixel boxes.  Coordinates are integers; the bounds with their   *)
(* margin of 1 / MarginDen are kept exactly, in 1 / MarginDen of the       *)
(* coordinate unit, and pixel positions as fractions over the range.       *)
(* The program computes in binary floating point; on the coordinates and   *)
(* image sizes of this model its boxes are the exact ones.                 *)
(***************************************************************************)
\* The coordinates of the vertices, and the sides of the images.
Coords     == {0, 1}
ImageSides == {4, 8, 16}

\* The exterior ring of a polygon WKT: here the closed ring of the
\* rectangle [x1, x2] x [y1, y2], a segment or a point when it has no
\* extent on an axis.
Ring(x1, x2, y1, y2) ==
    << <<x1, y1>>, <<x2, y1>>, <<x2, y2>>, <<x1, y2>>, <<x1, y1>> >>
Rings ==
    {Ring(c[1], c[2], c[3], c[4]) :
        c \in {d \in Coords \X Coords \X Coords \X Coords :
                  d[1] <= d[2] /\ d[3] <= d[4]}}

\* The 'wkt' of an entry of lng_lat, by what wkt_loads and .exterior.coords
\* make of it:
\*   polygon      a polygon with the given exterior ring;
\*   unparsable   wkt_loads raises;
\*   not_polygon  a geometry without .exterior (point, line, multi-polygon):
\*                AttributeError;
\*   empty        POLYGON EMPTY: an empty exterior ring, coords = [].
Wkts ==
    [kind : {"polygon"}, ring : Rings]
        \cup {[kind |-> k, ring |-> <<>>] : k \in {"unparsable", "not_polygon", "empty"}}

\* No label document: the batch loop is explored on its own.
NoDocument == [none |-> TRUE]

\* A label document whose features have no lng_lat key.
NoLngLat == [features |-> "no lng_lat"]

Documents ==
    {NoLngLat} \cup
    {[lng_lat |-> es] : es \in UNION {[1..n -> Wkts] : n \in 0..MaxPolygons}}

\* Line 260: label_data.get('features', {}).get('lng_lat', []).
LngLat(doc) == IF "lng_lat" \in DOMAIN doc THEN doc.lng_lat ELSE <<>>

Lngs(ring) == [i \in DOMAIN ring |-> ring[i][1]]
Lats(ring) == [i \in DOMAIN ring |-> ring[i][2]]

\* Lines 293-311: the entries from position i on that get through the try
\* block; the i-th entry of the document carries the i-th uid.  An entry
\* with an empty ring gets through it, with empty lngs and lats.
RECURSIVE ParseFrom(_, _)
ParseFrom(es, i) ==
    IF i > Len(es) THEN <<>>
    ELSE IF es[i].kind \in {"polygon", "empty"}
    THEN <<[uid |-> UidOf(i), lngs |-> Lngs(es[i].ring), lats |-> Lats(es[i].ring)]>>
             \o ParseFrom(es, i + 1)
    ELSE ParseFrom(es, i + 1)

RECURSIVE Flatten(_)
Flatten(ss) == IF ss = <<>> THEN <<>> ELSE Head(ss) \o Flatten(Tail(ss))

\* all_lngs and all_lats of lines 303-304.
all_lngs(pp) == Flatten([i \in DOMAIN pp |-> pp[i].lngs])
all_lats(pp) == Flatten([i \in DOMAIN pp |-> pp[i].lats])

SeqMin(s) == CHOOSE x \in {s[i] : i \in DOMAIN s} : \A i \in DOMAIN s : x <= s[i]
SeqMax(s) == CHOOSE x \in {s[i] : i \in DOMAIN s} : \A i \in DOMAIN s : x >= s[i]

\* LowBoundAt with the margin taken off the extent.
LowBoundInward(lo, hi, m) == MarginDen * lo + m * (hi - lo)

\* Lines 335-338: a bound moved outwards by range * margin, for the margin
\* m / MarginDen; the result is in 1 / MarginDen.
LowBoundAt(lo, hi, m)  == MarginDen * lo - m * (hi - lo)
HighBoundAt(lo, hi, m) == MarginDen * hi + m * (hi - lo)

\* Lines 327-340 with the margin of line 334.
LowBound(lo, hi)  == LowBoundAt(lo, hi, MarginNum)
HighBound(lo, hi) == HighBoundAt(lo, hi, MarginNum)

\* Lines 327-338: the four bounds of parsed polygons with vertices, for the
\* margin m / MarginDen.
EstimateAt(pp, m) ==
    LET lngs == all_lngs(pp)
        lats == all_lats(pp)
    IN  [min_lng |-> LowBoundAt(SeqMin(lngs), SeqMax(lngs), m),
         max_lng |-> HighBoundAt(SeqMin(lngs), SeqMax(lngs), m),
         min_lat |-> LowBoundAt(SeqMin(lats), SeqMax(lats), m),
         max_lat |-> HighBoundAt(SeqMin(lats), SeqMax(lats), m)]

\* lng_range and lat_range of lines 339-340, in 1 / MarginDen.
lng_range == max_lng - min_lng
lat_range == max_lat - min_lat

\* PxX with east at the left of the image.
PxXMirrored(t) == (max_lng - t) * img_w

\* Lines 361-362: px_x and px_y times the range (the range is positive),
\* for a longitude and a latitude in the unit of the bounds.
PxX(t) == (t - min_lng) * img_w

\* PxY with north at the bottom of the image.
PxYUpright(t) == (t - min_lat) * img_h

PxY(t) == (max_lat - t) * img_h

\* The same for a coordinate of the label document.
px_x(lng) == PxX(MarginDen * lng)
px_y(lat) == PxY(MarginDen * lat)

\* int() of a fraction that is not negative.
int(num, den) == num \div den

Max(a, b) == IF a >= b THEN a ELSE b

\* Lines 365-371: the pixel box of a parsed polygon with vertices.
BBox(p) ==
    LET xs == [i \in DOMAIN p.lngs |-> px_x(p.lngs[i])]
        ys == [i \in DOMAIN p.lats |-> px_y(p.lats[i])]
    IN  [uid |-> p.uid,
         x1 |-> Max(0, int(SeqMin(xs), lng_range)),
         y1 |-> Max(0, int(SeqMin(ys), lat_range)),
         x2 |-> Min(img_w, int(SeqMax(xs), lng_range)),
         y2 |-> Min(img_h, int(SeqMax(ys), lat_range))]

\* Lines 358-371 within the bounds b (positive ranges) instead of the
\* estimate of the tile: the pixel box of a parsed polygon with vertices.
BoxIn(p, b, w, h) ==
    LET xs == [i \in DOMAIN p.lngs |-> (MarginDen * p.lngs[i] - b.min_lng) * w]
        ys == [i \in DOMAIN p.lats |-> (b.max_lat - MarginDen * p.lats[i]) * h]
    IN  [uid |-> p.uid,
         x1 |-> Max(0, int(SeqMin(xs), b.max_lng - b.min_lng)),
         y1 |-> Max(0, int(SeqMin(ys), b.max_lat - b.min_lat)),
         x2 |-> Min(w, int(SeqMax(xs), b.max_lng - b.min_lng)),
         y2 |-> Min(h, int(SeqMax(ys), b.max_lat - b.min_lat))]

\* Tiny with no box dropped.
TinyNever(b) == FALSE

\* Line 374: the box is dropped.
Tiny(b) == (b.x2 - b.x1) < MinBoxSize \/ (b.y2 - b.y1) < MinBoxSize

\* Lines 357-381: the boxes kept, from the i-th parsed polygon on.
RECURSIVE BoxesFrom(_, _)
BoxesFrom(pp, i) ==
    IF i > Len(pp) THEN <<>>
    ELSE IF Tiny(BBox(pp[i])) THEN BoxesFrom(pp, i + 1)
    ELSE <<BBox(pp[i])>> \o BoxesFrom(pp, i + 1)

\* No response text is being parsed.
NoResponse ==
    /\ response_text = <<>>
    /\ wrapped = [fence |-> "none"]
    /\ json_value = [none |-> TRUE]

\* A directory without files, or that does not exist.
EmptyDir == <<>>

\* strip_labels has nothing to work on.
NoFiles ==
    /\ FEMA_DIR = EmptyDir
    /\ GROUND_TRUTH_DIR = EmptyDir
    /\ originals = EmptyDir
    /\ runs = 0

\* Steps 1 to 5 have not run.
GeoIdle ==
    /\ label_data = NoDocument
    /\ polygons = <<>>
    /\ img_w = 0
    /\ img_h = 0
    /\ parsed_polygons = <<>>
    /\ min_lng = 0
    /\ max_lng = 0
    /\ min_lat = 0
    /\ max_lat = 0
    /\ geo_error = "none"
    /\ vertices = <<>>
    /\ px_coords = <<>>
    /\ margins = <<>>
    /\ estimates = <<>>
    /\ NoResponse
    /\ NoFiles

(***************************************************************************)
(* __init__ (lines 55-72): the credential.                                 *)
(***************************************************************************)
\* None, and the strings.
None == [none |-> TRUE]
Str(s) == [str |-> s]

\* The api_key argument (None by default), and os.getenv('GOOGLE_API_KEY')
\* (None when the variable is not set).
Keys == {None, Str(""), Str("k1"), Str("k2")}

\* Falsy with every key taken as given.
FalsyNever(k) == FALSE

\* `not api_key`: None and the empty string.
Falsy(k) == k = None \/ k = Str("")

\* genai.Client(api_key=k); NoClient before it is created.
Client(k) == [api_key |-> k]
NoClient == [api_key |-> "no client"]

\* The detector of the other specifications: built with a key.
Constructed ==
    /\ api_key = Str("k1")
    /\ GOOGLE_API_KEY = None
    /\ client = Client(Str("k1"))
    /\ init_state = "constructed"

(***************************************************************************)
(* The responses of the remote classifier.                                 *)
(***************************************************************************)
BatchUids(batch) == {batch[i].uid : i \in DOMAIN batch}

\* An element of a response to `batch`, its free text left out.
RespElems(batch) ==
    [uid : BatchUids(batch) \cup {NoUid, OtherUid},
     damage : ModelDamage,
     confidence : ModelConfidence] \cup {Scalar}

\* The free text put in: the j-th record gets the j-th text.
Described(raw) ==
    [j \in DOMAIN raw |->
        IF IsDict(raw[j])
        THEN [uid |-> raw[j].uid, damage |-> raw[j].damage,
              confidence |-> raw[j].confidence, description |-> DescNames[j]]
        ELSE raw[j]]

\* The longest response considered for a tile of `nb` batches: MaxSoloLen
\* when the batch loop is explored on its own for a tile of one batch,
\* MaxRespLen for a tile of two batches, one record for longer tiles.
RespLimit(nb) ==
    IF nb <= 1 /\ label_data = NoDocument THEN MaxSoloLen
    ELSE IF nb <= 2 THEN MaxRespLen
    ELSE 1

(***************************************************************************)
(* analyze_tile: the batch loop.                                           *)
(***************************************************************************)
Unset == [kind |-> "unset", value |-> <<>>]

TileConfigs ==
    {c \in [n : 0..MaxBuildings, bs : 1..MaxBatchSize] : TRUE}

\* What a call of progress_callback does; "none" when the argument is None.
Callbacks == {"none", "returns", "fails"}

InitTileWith(n, bs, cb) ==
    /\ buildings_with_bbox = [i \in 1..n |-> [uid |-> UidOf(i)]]
    /\ batch_size = bs
    /\ progress_callback = cb
    /\ submitted = <<>>
    /\ pc = "loop"
    /\ batch_idx = 0
    /\ all_results = <<>>
    /\ batch_results = Unset
    /\ seg_start = 0
    /\ progress = <<>>
    /\ sleeps = <<>>
    /\ events = <<>>
    /\ GeoIdle

\* A tile with a progress callback that returns.
InitTile(n, bs) == InitTileWith(n, bs, "returns")

IdleCall ==
    /\ retries = 5
    /\ contents = "none"
    /\ attempt = 0
    /\ log = <<>>
    /\ call_state = "idle"

Init ==
    /\ \E c \in TileConfigs : InitTile(c.n, c.bs)
    /\ IdleCall
    /\ Constructed

\* What the batch loop does for batch k, as an entry of `events`.
Event(e, k) == [ev |-> e, batch |-> k]

\* Paced with a wait after the last batch too.
PacedAfterLast(bn, tb) == bn <= tb

\* Line 473: `if batch_num < total_batches:` guards time.sleep(10).
Paced(bn, tb) == bn < tb

\* Lines 399-408: the next batch is sliced and the progress callback, if
\* there is one, called.  The call is outside the try block of line 410: an
\* exception of the callback leaves analyze_tile.
StartBatch ==
    /\ pc = "loop"
    /\ batch_idx < Len(buildings_with_bbox)
    /\ IF progress_callback = "none"
       THEN UNCHANGED <<progress, events>>
       ELSE /\ progress' = Append(progress, <<batch_num, total_batches>>)
            /\ events' = Append(events, Event("progress", batch_num))
    /\ pc' = IF progress_callback = "fails" THEN "raised" ELSE "classify"
    /\ seg_start' = Len(all_results)
    /\ batch_results' = Unset
    /\ UNCHANGED <<buildings_with_bbox, batch_size, progress_callback, submitted,
                   batch_idx, all_results, sleeps>>
    /\ UNCHANGED <<geoVars, callVars, initVars, funVars>>

\* Lines 410-445 and 457-466: classify_batch returns a list.
ClassifyReturnsList ==
    /\ pc = "classify"
    /\ \E n \in 0..RespLimit(total_batches) :
        \E raw \in [1..n -> RespElems(batch_buildings)] :
            LET resp == Described(raw)
            IN  /\ batch_results' = [kind |-> "list", value |-> resp]
                /\ all_results' = all_results \o HandleList(resp, batch_buildings)
    /\ submitted' = Append(submitted, batch_buildings)
    /\ events' = events \o <<Event("classify", batch_num), Event("append", batch_num)>>
    /\ pc' = "pace"
    /\ UNCHANGED <<buildings_with_bbox, batch_size, progress_callback, batch_idx,
                   seg_start, progress, sleeps>>
    /\ UNCHANGED <<geoVars, callVars, initVars, funVars>>

\* Lines 446-455: classify_batch returns a value that is no list: a JSON
\* object or scalar, or None when _call_gemini falls out of its loop.
ClassifyReturnsNonList ==
    /\ pc = "classify"
    /\ \E k \in {"object", "none"} :
        batch_results' = [kind |-> k, value |-> <<>>]
    /\ all_results' = all_results \o UnexpectedRecords(batch_buildings)
    /\ submitted' = Append(submitted, batch_buildings)
    /\ events' = events \o <<Event("classify", batch_num), Event("append", batch_num)>>
    /\ pc' = "pace"
    /\ UNCHANGED <<buildings_with_bbox, batch_size, progress_callback, batch_idx,
                   seg_start, progress, sleeps>>
    /\ UNCHANGED <<geoVars, callVars, initVars, funVars>>

\* Lines 457-466: classify_batch raises.
ClassifyRaises ==
    /\ pc = "classify"
    /\ batch_results' = [kind |-> "raised", value |-> <<>>]
    /\ all_results' = all_results \o ErrorRecords(batch_buildings)
    /\ submitted' = Append(submitted, batch_buildings)
    /\ events' = events \o <<Event("classify", batch_num), Event("append", batch_num)>>
    /\ pc' = "pace"
    /\ UNCHANGED <<buildings_with_bbox, batch_size, progress_callback, batch_idx,
                   seg_start, progress, sleeps>>
    /\ UNCHANGED <<geoVars, callVars, initVars, funVars>>

\* Lines 472-475 and the loop increment: time.sleep(10) unless this was
\* the last batch.
EndBatch ==
    /\ pc = "pace"
    /\ IF Paced(batch_num, total_batches)
       THEN /\ sleeps' = Append(sleeps, 10)
            /\ events' = Append(events, Event("sleep", batch_num))
       ELSE UNCHANGED <<sleeps, events>>
    /\ batch_idx' = batch_idx + batch_size
    /\ batch_results' = Unset
    /\ pc' = "loop"
    /\ UNCHANGED <<buildings_with_bbox, batch_size, progress_callback, submitted,
                   all_results, seg_start, progress>>
    /\ UNCHANGED <<geoVars, callVars, initVars, funVars>>

\* Lines 480-487: the damage summary, then return.  damage_summary.get(d, 0)
\* raises TypeError, outside any try, when d cannot be hashed.
Return ==
    /\ pc = "loop"
    /\ batch_idx >= Len(buildings_with_bbox)
    /\ pc' = IF \E i \in DOMAIN all_results : all_results[i].damage = Unhashable
             THEN "raised" ELSE "done"
    /\ UNCHANGED <<buildings_with_bbox, batch_size, progress_callback, submitted,
                   batch_idx, all_results,
                   batch_results, seg_start, progress, sleeps, events>>
    /\ UNCHANGED <<geoVars, callVars, initVars, funVars>>

Next ==
    \/ StartBatch
    \/ ClassifyReturnsList
    \/ ClassifyReturnsNonList
    \/ ClassifyRaises
    \/ EndBatch
    \/ Return

Spec == Init /\ [][Next]_vars

\* A tile whose buildings all fit one batch of the largest size.
InitBatch ==
    /\ \E c \in TileConfigs :
        c.bs = MaxBatchSize /\ c.n <= c.bs /\ InitTile(c.n, c.bs)
    /\ IdleCall
    /\ Constructed

\* analyze_tile on the tiles of a single batch.
SpecBatch == InitBatch /\ [][Next]_vars

\* Any tile with any progress callback or none.
InitCallback ==
    /\ \E c \in TileConfigs : \E cb \in Callbacks : InitTileWith(c.n, c.bs, cb)
    /\ IdleCall
    /\ Constructed

\* analyze_tile, the batch loop with every kind of callback.
SpecCallback == InitCallback /\ [][Next]_vars

\* A tile of two batches or more.
InitLoop ==
    /\ \E c \in TileConfigs : c.bs < c.n /\ InitTile(c.n, c.bs)
    /\ IdleCall
    /\ Constructed

\* analyze_tile on the tiles of several batches.
SpecLoop == InitLoop /\ [][Next]_vars

(***************************************************************************)
(* analyze_tile from its start: steps 1 to 5, then the batch loop.         *)
(***************************************************************************)
InitGeo ==
    /\ label_data \in Documents
    /\ img_w \in ImageSides
    /\ img_h \in ImageSides
    /\ batch_size \in {1, MaxBatchSize}
    /\ progress_callback = "returns"
    /\ submitted = <<>>
    /\ pc = "load"
    /\ polygons = <<>>
    /\ parsed_polygons = <<>>
    /\ min_lng = 0
    /\ max_lng = 0
    /\ min_lat = 0
    /\ max_lat = 0
    /\ geo_error = "none"
    /\ vertices = <<>>
    /\ px_coords = <<>>
    /\ margins = <<>>
    /\ estimates = <<>>
    /\ NoResponse
    /\ NoFiles
    /\ buildings_with_bbox = <<>>
    /\ batch_idx = 0
    /\ all_results = <<>>
    /\ batch_results = Unset
    /\ seg_start = 0
    /\ progress = <<>>
    /\ sleeps = <<>>
    /\ events = <<>>
    /\ IdleCall
    /\ Constructed

\* Lines 257-270: the document is read; without polygons analyze_tile
\* returns [].  The images are opened next: img_w and img_h hold their size.
LoadLabel ==
    /\ pc = "load"
    /\ polygons' = LngLat(label_data)
    /\ pc' = IF polygons' = <<>> THEN "done" ELSE "parse"
    /\ UNCHANGED <<label_data, img_w, img_h, parsed_polygons, min_lng, max_lng,
                   min_lat, max_lat, geo_error>>
    /\ UNCHANGED <<buildings_with_bbox, batch_size, progress_callback, submitted,
                   batch_idx, all_results,
                   batch_results, seg_start, progress, sleeps, events>>
    /\ UNCHANGED <<callVars, initVars, funVars>>

\* Lines 289-314: the entries are parsed; when none gets through,
\* analyze_tile returns [].
ParseAll ==
    /\ pc = "parse"
    /\ parsed_polygons' = ParseFrom(polygons, 1)
    /\ pc' = IF parsed_polygons' = <<>> THEN "done" ELSE "bounds"
    /\ UNCHANGED <<label_data, polygons, img_w, img_h, min_lng, max_lng,
                   min_lat, max_lat, geo_error>>
    /\ UNCHANGED <<buildings_with_bbox, batch_size, progress_callback, submitted,
                   batch_idx, all_results,
                   batch_results, seg_start, progress, sleeps, events>>
    /\ UNCHANGED <<callVars, initVars, funVars>>

\* Lines 327-340: the bounds of the tile.  min() of line 327 raises
\* ValueError when no parsed polygon has a vertex.
EstimateBounds ==
    /\ pc = "bounds"
    /\ IF all_lngs(parsed_polygons) = <<>>
       THEN /\ geo_error' = "ValueError"
            /\ pc' = "raised"
            /\ UNCHANGED <<min_lng, max_lng, min_lat, max_lat>>
       ELSE LET lngs == all_lngs(parsed_polygons)
                lats == all_lats(parsed_polygons)
            IN  /\ min_lng' = LowBound(SeqMin(lngs), SeqMax(lngs))
                /\ max_lng' = HighBound(SeqMin(lngs), SeqMax(lngs))
                /\ min_lat' = LowBound(SeqMin(lats), SeqMax(lats))
                /\ max_lat' = HighBound(SeqMin(lats), SeqMax(lats))
                /\ pc' = "project"
                /\ UNCHANGED geo_error
    /\ UNCHANGED <<label_data, polygons, img_w, img_h, parsed_polygons>>
    /\ UNCHANGED <<buildings_with_bbox, batch_size, progress_callback, submitted,
                   batch_idx, all_results,
                   batch_results, seg_start, progress, sleeps, events>>
    /\ UNCHANGED <<callVars, initVars, funVars>>

\* The first parsed polygon the loop of lines 357-381 fails on, 0 if none:
\* a polygon with vertices when a range is zero (lines 361-362), a polygon
\* without vertices in any case (min(xs) on line 368).
FirstFailing ==
    LET bad == {i \in DOMAIN parsed_polygons :
                   \/ parsed_polygons[i].lngs = <<>>
                   \/ lng_range = 0
                   \/ lat_range = 0}
    IN  IF bad = {} THEN 0 ELSE CHOOSE i \in bad : \A j \in bad : i <= j

\* Lines 356-384: the pixel boxes; the loop raises out of analyze_tile on
\* the first polygon it fails on.
ProjectAll ==
    /\ pc = "project"
    /\ IF FirstFailing > 0
       THEN /\ geo_error' = IF parsed_polygons[FirstFailing].lngs = <<>>
                            THEN "ValueError" ELSE "ZeroDivisionError"
            /\ pc' = "raised"
            /\ UNCHANGED buildings_with_bbox
       ELSE /\ buildings_with_bbox' = BoxesFrom(parsed_polygons, 1)
            /\ pc' = "loop"
            /\ UNCHANGED geo_error
    /\ UNCHANGED <<label_data, polygons, img_w, img_h, parsed_polygons, min_lng,
                   max_lng, min_lat, max_lat>>
    /\ UNCHANGED <<batch_size, progress_callback, submitted,
                   batch_idx, all_results, batch_results, seg_start,
                   progress, sleeps, events>>
    /\ UNCHANGED <<callVars, initVars, funVars>>

NextTile ==
    \/ LoadLabel
    \/ ParseAll
    \/ EstimateBounds
    \/ ProjectAll
    \/ Next

\* analyze_tile on every label document and image size.
SpecGeo == InitGeo /\ [][NextTile]_vars

(***************************************************************************)
(* The projection of lines 357-362 on its own: given bounds, an image     *)
(* size and two vertices.                                                  *)
(***************************************************************************)
\* The batch loop and the document are not there.
NoTile ==
    /\ buildings_with_bbox = <<>>
    /\ batch_size = 1
    /\ progress_callback = "none"
    /\ submitted = <<>>
    /\ batch_idx = 0
    /\ all_results = <<>>
    /\ batch_results = Unset
    /\ seg_start = 0
    /\ progress = <<>>
    /\ sleeps = <<>>
    /\ events = <<>>
    /\ label_data = NoDocument
    /\ polygons = <<>>
    /\ parsed_polygons = <<>>
    /\ geo_error = "none"

\* Bounds with positive ranges and vertices inside them, on a small grid.
InitGrid ==
    /\ min_lng \in 0..MaxCoord
    /\ max_lng \in (min_lng + 1)..MaxCoord
    /\ min_lat \in 0..MaxCoord
    /\ max_lat \in (min_lat + 1)..MaxCoord
    /\ img_w \in ImageSides
    /\ img_h \in ImageSides
    /\ vertices \in [1..2 -> (min_lng..max_lng) \X (min_lat..max_lat)]

\* One tile of the data set, in thousandths of a degree: bounds
\* lng [-90.90, -90.86], lat [14.46, 14.49], an image of the usual size of
\* line 270 and two vertices in it.
InitScenario ==
    /\ min_lng = -90900
    /\ max_lng = -90860
    /\ min_lat = 14460
    /\ max_lat = 14490
    /\ img_w = 1024
    /\ img_h = 1024
    /\ vertices = <<(<<-90880, 14475>>), (<<-90895, 14485>>)>>

InitProject ==
    /\ (InitGrid \/ InitScenario)
    /\ px_coords = <<>>
    /\ margins = <<>>
    /\ estimates = <<>>
    /\ NoResponse
    /\ NoFiles
    /\ pc = "vertices"
    /\ NoTile
    /\ IdleCall
    /\ Constructed

\* Lines 357-362: px_coords of the vertices.
ProjectVertices ==
    /\ pc = "vertices"
    /\ px_coords' = [i \in DOMAIN vertices |->
                        <<PxX(vertices[i][1]), PxY(vertices[i][2])>>]
    /\ pc' = "projected"
    /\ UNCHANGED <<vertices, margins, estimates, response_text, wrapped, json_value>>
    /\ UNCHANGED <<FEMA_DIR, GROUND_TRUTH_DIR, originals, runs>>
    /\ UNCHANGED <<buildings_with_bbox, batch_size, progress_callback, submitted,
                   batch_idx, all_results, batch_results, seg_start, progress,
                   sleeps, events>>
    /\ UNCHANGED <<geoVars, callVars, initVars>>

NextProject == ProjectVertices

\* The projection on every grid scene.
SpecProject == InitProject /\ [][NextProject]_vars

(***************************************************************************)
(* The estimate of lines 327-340 and the boxes of lines 357-371 as a       *)
(* function of margin: two polygons, two margins.                          *)
(***************************************************************************)
\* The sides of a rectangle on the grid of the extents.
Intervals == {c \in (0..MaxExtent) \X (0..MaxExtent) : c[1] <= c[2]}

\* A building, and a second polygon from the origin that gives the raw
\* extent its size; the raw extent is not zero on either axis.
InitPolygons ==
    \E bx \in Intervals : \E by \in Intervals : \E e \in 1..MaxExtent :
        parsed_polygons =
            <<[uid |-> UidOf(1),
               lngs |-> Lngs(Ring(bx[1], bx[2], by[1], by[2])),
               lats |-> Lats(Ring(bx[1], bx[2], by[1], by[2]))],
              [uid |-> UidOf(2),
               lngs |-> Lngs(Ring(0, e, 0, e)),
               lats |-> Lats(Ring(0, e, 0, e))]>>

\* The images are square here: the two axes do not meet in lines 327-371.
InitMargin ==
    /\ InitPolygons
    /\ img_w \in ImageSides
    /\ img_h = img_w
    /\ margins \in {ms \in (0..MaxMargin) \X (0..MaxMargin) : ms[1] < ms[2]}
    /\ estimates = <<>>
    /\ NoResponse
    /\ NoFiles
    /\ pc = "margins"
    /\ label_data = NoDocument
    /\ polygons = <<>>
    /\ min_lng = 0
    /\ max_lng = 0
    /\ min_lat = 0
    /\ max_lat = 0
    /\ geo_error = "none"
    /\ vertices = <<>>
    /\ px_coords = <<>>
    /\ buildings_with_bbox = <<>>
    /\ batch_size = 1
    /\ progress_callback = "none"
    /\ submitted = <<>>
    /\ batch_idx = 0
    /\ all_results = <<>>
    /\ batch_results = Unset
    /\ seg_start = 0
    /\ progress = <<>>
    /\ sleeps = <<>>
    /\ events = <<>>
    /\ IdleCall
    /\ Constructed

\* Lines 327-340 and 357-371 for each margin: the bounds, and the box of
\* every parsed polygon before the filter of line 374.
EstimateEach ==
    /\ pc = "margins"
    /\ estimates' =
           [i \in DOMAIN margins |->
               LET b == EstimateAt(parsed_polygons, margins[i])
               IN  [bounds |-> b,
                    boxes |-> [j \in DOMAIN parsed_polygons |->
                                  BoxIn(parsed_polygons[j], b, img_w, img_h)]]]
    /\ pc' = "estimated"
    /\ UNCHANGED <<vertices, px_coords, margins, response_text, wrapped, json_value>>
    /\ UNCHANGED <<FEMA_DIR, GROUND_TRUTH_DIR, originals, runs>>
    /\ UNCHANGED <<buildings_with_bbox, batch_size, progress_callback, submitted,
                   batch_idx, all_results, batch_results, seg_start, progress,
                   sleeps, events>>
    /\ UNCHANGED <<geoVars, callVars, initVars>>

NextMargin == EstimateEach

\* The estimate and the boxes for every pair of margins.
SpecMargin == InitMargin /\ [][NextMargin]_vars

(***************************************************************************)
(* _call_gemini: the retry loop (lines 94-140).                            *)
(***************************************************************************)
\* The requests told apart by their contents.
Requests == {"req1", "req2"}

\* retryDelay of a rate-limit error, in seconds; NoDelay when it has none.
NoDelay == -1
RetryDelays == {NoDelay, 7}

\* Lines 120-127: the wait after a rate-limit error.
wait_time(delay) == IF delay = NoDelay THEN 40 ELSE delay + 5

\* The loop variable after the pause of line 138:
\* `for attempt in range(retries + 1)`.
NextAttempt(a) == a + 1

\* AfterRateLimit with the rate-limited attempt not counted.
AfterRateLimitFree(a) == a

\* The loop variable after the `continue` of line 133: the for loop of line
\* 94 moves on, so a rate-limited attempt uses up one of the retries + 1.
AfterRateLimit(a) == a + 1

Call(c)  == [call |-> c]
Sleep(t) == [sleep |-> t]
IsCall(e) == "call" \in DOMAIN e
NumCalls(l) == Cardinality({i \in DOMAIN l : IsCall(l[i])})

\* The log stays finite whatever the loop does.
MaxLog == 2 * (MaxRetries + 3)

InitCall ==
    /\ retries \in 0..MaxRetries
    /\ contents \in Requests
    /\ attempt = 0
    /\ log = <<>>
    /\ call_state = "running"
    /\ InitTile(0, 1)
    /\ Constructed

\* The loop of line 94 goes on to attempt a, or is exhausted: the function
\* then ends without a return statement, i.e. returns None.
LoopTo(a) ==
    /\ attempt' = a
    /\ call_state' = IF a < retries + 1 THEN "running" ELSE "returned_none"

\* Lines 97-111: the call succeeds and its text parses.
AttemptReturns ==
    /\ call_state = "running"
    /\ Len(log) < MaxLog
    /\ log' = Append(log, Call(contents))
    /\ call_state' = "returned"
    /\ UNCHANGED <<retries, contents, attempt>>
    /\ UNCHANGED <<tileVars, geoVars, initVars, funVars>>

\* Lines 113-133: the attempt fails with a rate-limit error.
AttemptRateLimited ==
    /\ call_state = "running"
    /\ Len(log) < MaxLog
    /\ \E d \in RetryDelays :
        log' = log \o <<Call(contents), Sleep(wait_time(d))>>
    /\ LoopTo(AfterRateLimit(attempt))
    /\ UNCHANGED <<retries, contents>>
    /\ UNCHANGED <<tileVars, geoVars, initVars, funVars>>

\* Lines 113-115 and 135-140: the attempt fails otherwise (the call raises,
\* or the text is no JSON).
AttemptFails ==
    /\ call_state = "running"
    /\ Len(log) < MaxLog
    /\ IF attempt < retries
       THEN /\ log' = log \o <<Call(contents), Sleep(2)>>
            /\ LoopTo(NextAttempt(attempt))
       ELSE /\ log' = Append(log, Call(contents))
            /\ call_state' = "raised"
            /\ UNCHANGED attempt
    /\ UNCHANGED <<retries, contents>>
    /\ UNCHANGED <<tileVars, geoVars, initVars, funVars>>

NextCall ==
    \/ AttemptReturns
    \/ AttemptRateLimited
    \/ AttemptFails

\* _call_gemini on its own, for every retries argument.
SpecCall == InitCall /\ [][NextCall]_vars

(***************************************************************************)
(* _call_gemini: the JSON text of a response (lines 101-111).              *)
(*                                                                         *)
(* A text is a sequence of characters: "tick" for the backtick, " " for    *)
(* white space, "x" for any other character; the word json and a whole     *)
(* JSON text count as one character each.                                  *)
(***************************************************************************)
Fence     == <<"tick", "tick", "tick">>
JsonFence == Fence \o <<"json">>

\* The JSON texts, without a backtick in them.
JsonTexts == {"[1]", "{}"}

\* The texts of at most n pieces: a character, the word json, or a fence
\* marker.
Pieces == {<<"x">>, <<"tick">>, <<"json">>, Fence}
RECURSIVE TextsOf(_)
TextsOf(n) ==
    IF n = 0 THEN {<<>>}
    ELSE LET shorter == TextsOf(n - 1)
         IN  shorter \cup {t \o q : t \in shorter, q \in Pieces}
Texts == TextsOf(MaxPieces)

\* str.find, from 1; 0 when sep does not occur in s.
find(s, sep) ==
    LET at == {i \in 1..(Len(s) - Len(sep) + 1) : SubSeq(s, i, i + Len(sep) - 1) = sep}
    IN  IF at = {} THEN 0 ELSE CHOOSE i \in at : \A k \in at : i <= k

\* The operator in of strings: sep in s.
Contains(s, sep) == find(s, sep) # 0

\* s.split(sep)[0]: s up to the first sep, all of s without one.
split0(s, sep) == IF Contains(s, sep) THEN SubSeq(s, 1, find(s, sep) - 1) ELSE s

\* s.split(sep)[1], for s with sep in it: from the first sep to the next.
split1(s, sep) == split0(SubSeq(s, find(s, sep) + Len(sep), Len(s)), sep)

\* strip that leaves the blanks.
stripNothing(s) == s

\* str.strip.
strip(s) ==
    LET inked == {i \in DOMAIN s : s[i] # " "}
    IN  IF inked = {} THEN <<>>
        ELSE SubSeq(s, CHOOSE i \in inked : \A k \in inked : i <= k,
                       CHOOSE i \in inked : \A k \in inked : i >= k)

\* json.loads: the value of a JSON text, JSONDecodeError for anything else.
JSONDecodeError == [error |-> "JSONDecodeError"]
loads(s) == IF Len(s) = 1 /\ s[1] \in JsonTexts THEN [value |-> s[1]] ELSE JSONDecodeError

\* Lines 104-109.
json_str(text) ==
    IF Contains(text, JsonFence)
    THEN strip(split0(split1(text, JsonFence), Fence))
    ELSE IF Contains(text, Fence)
    THEN strip(split0(split1(text, Fence), Fence))
    ELSE strip(text)

\* A response: a JSON text between blanks or not, bare or in a fence of
\* either kind with text before and after it.
InitResponse ==
    \E payload \in JsonTexts : \E pad \in {<<>>, <<" ">>} :
        \/ /\ response_text = pad \o <<payload>> \o pad
           /\ wrapped = [fence |-> "bare", payload |-> payload]
        \/ \E before \in Texts : \E after \in Texts :
           \E fence \in {"json", "plain"} :
              /\ response_text =
                     before \o (IF fence = "json" THEN JsonFence ELSE Fence)
                         \o pad \o <<payload>> \o pad \o Fence \o after
              /\ wrapped = [fence |-> fence, payload |-> payload,
                            before |-> before, after |-> after]

InitFence ==
    /\ InitResponse
    /\ json_value = [none |-> TRUE]
    /\ pc = "response"
    /\ NoTile
    /\ img_w = 0
    /\ img_h = 0
    /\ min_lng = 0
    /\ max_lng = 0
    /\ min_lat = 0
    /\ max_lat = 0
    /\ vertices = <<>>
    /\ px_coords = <<>>
    /\ margins = <<>>
    /\ estimates = <<>>
    /\ NoFiles
    /\ IdleCall
    /\ Constructed

\* Lines 101-111: the JSON text is cut out of the response and parsed.
ParseResponse ==
    /\ pc = "response"
    /\ json_value' = loads(json_str(response_text))
    /\ pc' = "parsed"
    /\ UNCHANGED <<vertices, px_coords, margins, estimates, response_text, wrapped>>
    /\ UNCHANGED <<FEMA_DIR, GROUND_TRUTH_DIR, originals, runs>>
    /\ UNCHANGED <<buildings_with_bbox, batch_size, progress_callback, submitted,
                   batch_idx, all_results, batch_results, seg_start, progress,
                   sleeps, events>>
    /\ UNCHANGED <<geoVars, callVars, initVars>>

NextFence == ParseResponse

\* The parsing of every response.
SpecFence == InitFence /\ [][NextFence]_vars

(***************************************************************************)
(* strip_damage_labels.py: strip_labels.                                   *)
(*                                                                         *)
(* A label file is its two polygon lists, features.lng_lat and             *)
(* features.xy; a polygon is the subtype of its properties, NoSubtype      *)
(* without one.  The geometry, the uid and feature_type (removed with the  *)
(* subtype) are left out.                                                  *)
(***************************************************************************)
FileNames == {"a.json", "b.json"}
Subtypes  == {"destroyed", "no-damage"}
NoSubtype == "none"

PolygonLists ==
    UNION {[1..n -> Subtypes \cup {NoSubtype}] : n \in 0..MaxLabelled}
LabelFiles == [lng_lat : PolygonLists, xy : PolygonLists]

\* The directories of label files: some of the names, each with a file.
Directories == UNION {[names -> LabelFiles] : names \in SUBSET FileNames}

\* Lines 44-68: the copy of a file without its subtypes.
stripped(data) ==
    [lng_lat |-> [i \in DOMAIN data.lng_lat |-> NoSubtype],
     xy      |-> [i \in DOMAIN data.xy |-> NoSubtype]]

\* Before the first run FEMA_DIR holds the labelled files and
\* GROUND_TRUTH_DIR is not there.
InitStrip ==
    /\ FEMA_DIR \in Directories
    /\ originals = FEMA_DIR
    /\ GROUND_TRUTH_DIR = EmptyDir
    /\ runs = 0
    /\ pc = "script"
    /\ NoTile
    /\ img_w = 0
    /\ img_h = 0
    /\ min_lng = 0
    /\ max_lng = 0
    /\ min_lat = 0
    /\ max_lat = 0
    /\ vertices = <<>>
    /\ px_coords = <<>>
    /\ margins = <<>>
    /\ estimates = <<>>
    /\ NoResponse
    /\ IdleCall
    /\ Constructed

\* Lines 13-75, one run: without files it returns at once; else every file
\* of FEMA_DIR is written as it is to GROUND_TRUTH_DIR under its name
\* (lines 38-40), over a file of that name if there is one, and then
\* overwritten in FEMA_DIR by its stripped copy (lines 73-75).
strip_labels ==
    /\ pc = "script"
    /\ runs < MaxRuns
    /\ runs' = runs + 1
    /\ IF DOMAIN FEMA_DIR = {}
       THEN UNCHANGED <<FEMA_DIR, GROUND_TRUTH_DIR>>
       ELSE /\ GROUND_TRUTH_DIR' =
                  [f \in DOMAIN GROUND_TRUTH_DIR \cup DOMAIN FEMA_DIR |->
                      IF f \in DOMAIN FEMA_DIR THEN FEMA_DIR[f]
                      ELSE GROUND_TRUTH_DIR[f]]
            /\ FEMA_DIR' = [f \in DOMAIN FEMA_DIR |-> stripped(FEMA_DIR[f])]
    /\ UNCHANGED originals
    /\ UNCHANGED <<vertices, px_coords, margins, estimates, response_text, wrapped,
                   json_value>>
    /\ UNCHANGED <<buildings_with_bbox, batch_size, progress_callback, submitted,
                   batch_idx, all_results, batch_results, seg_start, progress,
                   sleeps, events, pc>>
    /\ UNCHANGED <<geoVars, callVars, initVars>>

NextStrip == strip_labels

\* Runs of strip_labels over the same two directories.
SpecStrip == InitStrip /\ [][NextStrip]_vars

(***************************************************************************)
(* DamageDetector(api_key), then requests through the detector.            *)
(***************************************************************************)
InitCtor ==
    /\ api_key \in Keys
    /\ GOOGLE_API_KEY \in Keys
    /\ client = NoClient
    /\ init_state = "new"
    /\ InitTile(0, 1)
    /\ IdleCall

\* Lines 66-72: __init__.  The key is the argument, or the environment
\* variable when the argument is missing; without a key ValueError is
\* raised, else the client is created.
Construct ==
    /\ init_state = "new"
    /\ LET key == IF Falsy(api_key) THEN GOOGLE_API_KEY ELSE api_key
       IN  IF Falsy(api_key) /\ Falsy(key)
           THEN /\ init_state' = "ValueError"
                /\ UNCHANGED client
           ELSE /\ init_state' = "constructed"
                /\ client' = Client(key)
    /\ UNCHANGED <<api_key, GOOGLE_API_KEY>>
    /\ UNCHANGED <<tileVars, geoVars, callVars, funVars>>

\* Line 218: a method of the detector calls _call_gemini; there is a
\* detector only when __init__ has returned.
StartCall ==
    /\ init_state = "constructed"
    /\ call_state = "idle"
    /\ retries' \in 0..MaxRetries
    /\ contents' \in Requests
    /\ attempt' = 0
    /\ log' = <<>>
    /\ call_state' = "running"
    /\ UNCHANGED <<tileVars, geoVars, initVars, funVars>>

NextCtor ==
    \/ Construct
    \/ StartCall
    \/ NextCall

\* The construction of a detector and a request through it.
SpecCtor == InitCtor /\ [][NextCtor]_vars

(***************************************************************************)
(* The claims.                                                             *)
(***************************************************************************)
\* The response of the current batch and the entries its loop appended.
Resp == batch_results.value
IsList == batch_results.kind = "list"
ListOfDicts == IsList /\ \A j \in DOMAIN Resp : IsDict(Resp[j])
RespUids == {Resp[j].uid : j \in {k \in DOMAIN Resp : IsDict(Resp[k])}}
Entry(i) == all_results[seg_start + i]
Payload(r) == <<r.damage, r.confidence, r.description>>
FromResponse(r) == \E j \in DOMAIN DescNames : r.description = DescNames[j]

\* No batch ended in the except handler or in the non-list branch: every
\* response was a list of objects that the try block got through.
NoBatchFailed ==
    \A i \in DOMAIN all_results :
        all_results[i].description \notin {"Error", "Unexpected API response format"}

\* C1: when analyze_tile returns and every response was a list of records,
\* the result holds the uid of every building exactly once and no other uid.
C1_CoverageByUid ==
    (pc = "done" /\ NoBatchFailed) =>
        /\ \A k \in DOMAIN buildings_with_bbox :
              Cardinality({i \in DOMAIN all_results :
                  all_results[i].uid = buildings_with_bbox[k].uid}) = 1
        /\ \A i \in DOMAIN all_results :
              all_results[i].uid \in BatchUids(buildings_with_bbox)

\* C2: when analyze_tile returns, the result has as many records as there
\* are buildings with a valid pixel box, whatever the batches ended in.
C2_CoverageByCount ==
    pc = "done" => Len(all_results) = Len(buildings_with_bbox)

\* C3: when analyze_tile returns, the i-th record of the result carries the
\* uid of the i-th building of buildings_with_bbox.
C3_OrderPreserved ==
    (pc = "done" /\ NoBatchFailed) =>
        \A i \in DOMAIN all_results :
            /\ i \in DOMAIN buildings_with_bbox
            /\ all_results[i].uid = buildings_with_bbox[i].uid

\* C4: within one batch no response record is given to two buildings: no two
\* entries of the batch are the same record of the response.
C4_NoRecordReused ==
    (pc = "pace" /\ ListOfDicts) =>
        \A i, k \in 1..Len(batch_buildings) :
            (i < k /\ FromResponse(Entry(i))) =>
                Entry(i).description # Entry(k).description

\* C5 as claimed: whenever the response (a list) holds a record with b's uid,
\* b's entry has the damage, confidence and description of such a record.
C5_UidMatchPrecedence ==
    (pc = "pace" /\ IsList) =>
        \A i \in 1..Len(batch_buildings) :
            batch_buildings[i].uid \in RespUids =>
                \E j \in DOMAIN Resp :
                    /\ IsDict(Resp[j])
                    /\ Resp[j].uid = batch_buildings[i].uid
                    /\ Payload(Entry(i)) = Payload(Resp[j])

\* C5 as amended: the same, for a response all of whose elements are
\* objects; the position of the record and the record at b's own index do
\* not matter.
C5_UidMatchInListOfObjects ==
    (pc = "pace" /\ ListOfDicts) =>
        \A i \in 1..Len(batch_buildings) :
            batch_buildings[i].uid \in RespUids =>
                \E j \in DOMAIN Resp :
                    /\ Resp[j].uid = batch_buildings[i].uid
                    /\ Payload(Entry(i)) = Payload(Resp[j])

\* A building matched by uid to the record at another index, while the
\* record at its own index has another uid and another damage.
C5_Witness ==
    /\ pc = "pace"
    /\ ListOfDicts
    /\ Len(batch_buildings) >= 2
    /\ Len(Resp) >= 2
    /\ Resp[2].uid = batch_buildings[1].uid
    /\ Resp[1].uid = batch_buildings[2].uid
    /\ Resp[1].damage # Resp[2].damage
    /\ Payload(Entry(1)) = Payload(Resp[2])

\* C6: a building whose uid no record carries and whose index lies within
\* the response gets the damage of the record at its index, under its uid.
C6_PositionalFallback ==
    (pc = "pace" /\ ListOfDicts) =>
        \A i \in 1..Len(batch_buildings) :
            (batch_buildings[i].uid \notin RespUids /\ i <= Len(Resp)) =>
                /\ Entry(i).damage = Resp[i].damage
                /\ Entry(i).uid = batch_buildings[i].uid

\* C7: a building whose uid no record of the response carries and whose
\* index is not below the length of the response is un-classified with
\* confidence 0.0; so is every building when the response is empty.
C7_SyntheticFallback ==
    (pc = "pace" /\ IsList) =>
        \A i \in 1..Len(batch_buildings) :
            (batch_buildings[i].uid \notin RespUids /\ i > Len(Resp)) =>
                /\ Entry(i).damage = "un-classified"
                /\ Entry(i).confidence = 0

\* A non-empty response of objects shorter than the batch: one building got
\* a record of the model, a later one the synthetic record.
C7_Witness ==
    /\ pc = "pace"
    /\ ListOfDicts
    /\ Len(Resp) >= 1
    /\ \E i, k \in 1..Len(batch_buildings) :
        /\ i > Len(Resp)
        /\ batch_buildings[i].uid \notin RespUids
        /\ Entry(i) = MissedRecord(batch_buildings[i].uid)
        /\ FromResponse(Entry(k))
        /\ Entry(k).damage = "destroyed"

\* C8: three buildings, a response of two records, one with the uid of a
\* batch member and one with no uid: three entries, one per building; the
\* named building has its record, exactly one other has the anonymous
\* record, exactly one is synthetic.
C8_UnderCount ==
    \A named, anon \in 1..2 :
        ( /\ pc = "pace"
          /\ Len(batch_buildings) = 3
          /\ ListOfDicts
          /\ Len(Resp) = 2
          /\ named # anon
          /\ Resp[named].uid \in BatchUids(batch_buildings)
          /\ Resp[anon].uid = NoUid
          /\ Resp[1].damage # Unhashable
          /\ Resp[2].damage # Unhashable ) =>
        /\ Len(all_results) = seg_start + 3
        /\ \A i \in 1..3 : Entry(i).uid = batch_buildings[i].uid
        /\ \A i \in 1..3 :
              batch_buildings[i].uid = Resp[named].uid =>
                  Payload(Entry(i)) = Payload(Resp[named])
        /\ Cardinality({i \in 1..3 :
              /\ batch_buildings[i].uid # Resp[named].uid
              /\ Payload(Entry(i)) = Payload(Resp[anon])}) = 1
        /\ Cardinality({i \in 1..3 :
              Entry(i) = MissedRecord(batch_buildings[i].uid)}) = 1

\* C9: every record analyze_tile returns has a damage of the vocabulary.
C9_ClosedVocabulary ==
    pc = "done" =>
        \A i \in DOMAIN all_results : all_results[i].damage \in Vocabulary

\* C10: the remote service is never called more than retries + 1 times for
\* a request, every call sends the contents of the request, and when all
\* attempts have failed (the function raised, or ran out of its loop) it was
\* called exactly retries + 1 times.
C10_RetryBound ==
    /\ NumCalls(log) <= retries + 1
    /\ \A i \in DOMAIN log : IsCall(log[i]) => log[i].call = contents
    /\ call_state \in {"raised", "returned_none"} => NumCalls(log) = retries + 1

\* All attempts failed, some by rate limit and some otherwise.
C10_Witness ==
    /\ call_state \in {"raised", "returned_none"}
    /\ retries >= 2
    /\ \E i, k \in DOMAIN log :
        /\ log[i] = Sleep(2)
        /\ log[k] = Sleep(40)
    /\ NumCalls(log) = retries + 1

\* C11: once all retries + 1 attempts of _call_gemini have failed, whatever
\* the class of each failure, the function has raised; it never ends
\* normally without a parsed response.
C11_ExhaustionRaises ==
    (call_state # "running" /\ call_state # "returned") => call_state = "raised"

\* The current batch failed as a whole: classify_batch raised (retries
\* exhausted on a generic failure, an unparsable text included), or gave a
\* value that is no list (None after a last rate-limited attempt, or another
\* JSON value), or gave a list with an element that is no object.
Degraded ==
    \/ batch_results.kind \in {"raised", "none", "object"}
    \/ IsList /\ ~ListOfDicts

\* The current batch has exactly one entry per building, in order, each
\* un-classified with confidence 0 and with nothing of the response in it.
DegradedSegment ==
    /\ Len(all_results) = seg_start + Len(batch_buildings)
    /\ \A i \in 1..Len(batch_buildings) :
        /\ Entry(i).uid = batch_buildings[i].uid
        /\ Entry(i).damage = "un-classified"
        /\ Entry(i).confidence = 0
        /\ ~FromResponse(Entry(i))

\* C12: a batch that fails as a whole gets exactly one un-classified record
\* of confidence 0 per building and no label of the model, and no step of
\* the loop changes a record appended before it (the records of the other
\* batches stay as they were).
C12_BatchDegradation ==
    [][/\ Len(all_results') >= Len(all_results)
       /\ SubSeq(all_results', 1, Len(all_results)) = all_results
       /\ (pc' = "pace" /\ Degraded') => DegradedSegment']_vars

\* The second batch or a later one has failed as a whole, after a batch
\* that took a record of its response.
C12_Witness ==
    /\ pc = "pace"
    /\ Degraded
    /\ batch_num >= 2
    /\ \E i \in 1..seg_start : FromResponse(all_results[i])

\* C13: once analyze_tile has ended on a tile of several batches with some
\* batch failed, it has returned its list (it did not raise) and every
\* batch, the ones after the failed batch included, was submitted.
C13_FailedBatchNotFatal ==
    (pc \in {"done", "raised"} /\ ~NoBatchFailed) =>
        /\ pc = "done"
        /\ \A k \in 1..total_batches :
              \E i \in DOMAIN events : events[i] = Event("classify", k)

\* The positions of `events` before position i that hold an event of kind e.
Before(i, e) == {j \in 1..(i - 1) : events[j].ev = e}

\* The calls of classify_batch, the appends and the waits, in order.
IsStep(e) == e.ev # "progress"
Steps == SelectSeq(events, IsStep)

\* The i-th step of a loop that submits one batch at a time in increasing
\* index, appends its records, and waits once before the next batch.
StepOfPacedLoop(i) ==
    Event(<<"classify", "append", "sleep">>[((i - 1) % 3) + 1], ((i - 1) \div 3) + 1)

\* C14: the batches are submitted one at a time in increasing index; batch
\* k + 1 is submitted after the records of batch k were appended, with
\* exactly one wait of 10 s in between whatever batch k ended in; there is
\* no wait after the last batch.
C14_SequentialPacing ==
    LET steps == Steps
    IN  /\ \A i \in DOMAIN steps :
            /\ steps[i] = StepOfPacedLoop(i)
            /\ steps[i].ev = "sleep" => steps[i].batch < total_batches
        /\ Len(sleeps) = Cardinality({i \in DOMAIN steps : steps[i].ev = "sleep"})
        /\ \A i \in DOMAIN sleeps : sleeps[i] = 10
        /\ pc \in {"done", "raised"} =>
            /\ Len(steps) = 3 * total_batches - 1
            /\ Len(sleeps) = total_batches - 1

\* analyze_tile has returned after three batches or more, of which one took
\* a record of its response, one got a value that is no list and one raised.
C14_Witness ==
    /\ pc = "done"
    /\ total_batches >= 3
    /\ Len(sleeps) = total_batches - 1
    /\ \E i, j, k \in DOMAIN all_results :
        /\ FromResponse(all_results[i])
        /\ all_results[j].description = "Unexpected API response format"
        /\ all_results[k].description = "Error"

\* C15: the progress callback is called once per batch with the 1-based
\* index of the batch and the number of batches, and the call for batch k
\* comes after batch k is over: after classify_batch has ended for it and
\* its records are in the result list.
C15_ProgressAfterBatch ==
    /\ \A i \in DOMAIN progress : progress[i] = <<i, total_batches>>
    /\ pc \in {"done", "raised"} => Len(progress) = total_batches
    /\ \A i \in DOMAIN events :
        events[i].ev = "progress" =>
            \E a \in Before(i, "append") : events[a].batch = events[i].batch

\* analyze_tile has ended: it returned its list or raised.
Ended == pc \in {"done", "raised"}

\* C16: whatever polygons were parsed, polygons without extent on an axis
\* included, the ranges the projection divides by are positive and
\* analyze_tile does not fail with a division by zero.
C16_DegenerateBoundsGuarded ==
    /\ pc = "project" => (lng_range > 0 /\ lat_range > 0)
    /\ geo_error # "ZeroDivisionError"

\* C17: when analyze_tile returns, every parsed polygon whose pixel box is
\* below the minimum size has a record in the result.
C17_NoSilentDrops ==
    (pc = "done" /\ parsed_polygons # <<>>) =>
        \A i \in DOMAIN parsed_polygons :
            Tiny(BBox(parsed_polygons[i])) =>
                \E k \in DOMAIN all_results :
                    all_results[k].uid = parsed_polygons[i].uid

\* The document has no polygons, or none of its entries is a polygon text.
NothingParses ==
    \A i \in DOMAIN LngLat(label_data) :
        LngLat(label_data)[i].kind \in {"unparsable", "not_polygon"}

\* Every parsed polygon has vertices and a pixel box below the minimum
\* size: all of them have no extent on one and the same axis (no width or
\* no height in any projection), or the projection makes their boxes tiny.
AllBoxesTiny ==
    /\ pc \in {"project", "loop", "done", "raised"}
    /\ parsed_polygons # <<>>
    /\ \A i \in DOMAIN parsed_polygons : parsed_polygons[i].lngs # <<>>
    /\ \/ lng_range = 0
       \/ lat_range = 0
       \/ \A i \in DOMAIN parsed_polygons : Tiny(BBox(parsed_polygons[i]))

\* C18: on a document without polygons, or none of whose entries parses, or
\* all of whose polygons have a pixel box below the minimum size,
\* analyze_tile ends by returning the empty list, and it has made no remote
\* call, no pacing wait and no call of the progress callback.
C18_EarlyExits ==
    (label_data # NoDocument /\ (NothingParses \/ AllBoxesTiny)) =>
        /\ pc # "raised"
        /\ all_results = <<>>
        /\ events = <<>>
        /\ progress = <<>>
        /\ sleeps = <<>>

\* C19: an entry that is no polygon text, or a polygon with an empty ring,
\* is not among the parsed polygons and does not make analyze_tile raise
\* (min() of an empty list); every polygon of the document is parsed.
C19_InvalidGeometrySkipped ==
    /\ geo_error # "ValueError"
    /\ pc \notin {"load", "parse"} =>
        \A i \in DOMAIN polygons :
            (polygons[i].kind = "polygon") <=>
                (\E k \in DOMAIN parsed_polygons :
                    parsed_polygons[k].uid = UidOf(i))

\* C20: once DamageDetector() has been called without an api_key argument
\* and without GOOGLE_API_KEY in the environment, it has raised ValueError,
\* no client was created and no remote call was made or retried.
C20_MissingCredentialFatal ==
    (init_state # "new" /\ api_key = None /\ GOOGLE_API_KEY = None) =>
        /\ init_state = "ValueError"
        /\ client = NoClient
        /\ log = <<>>
        /\ call_state = "idle"

\* The constructor has raised for want of a key.
C20_Witness ==
    /\ init_state = "ValueError"
    /\ api_key = None
    /\ GOOGLE_API_KEY = None

\* C21: the callback has no part in how analyze_tile ends.  Without a
\* callback every batch is submitted, and analyze_tile raises only in the
\* summary of its results; so it is with a callback, whatever a call of the
\* callback does.
C21_CallbackNoInfluence ==
    Ended =>
        /\ Cardinality({i \in DOMAIN events : events[i].ev = "classify"}) = total_batches
        /\ pc = "raised" =>
              \E i \in DOMAIN all_results : all_results[i].damage = Unhashable

\* The buildings handed to classify_batch so far, batch after batch.
Handed == Flatten(submitted)

\* C22: the batches handed to classify_batch are consecutive slices of the
\* building list in its order, disjoint and, once analyze_tile has ended,
\* covering it; each has between 1 and batch_size buildings, and exactly
\* batch_size unless it is the last; their number is the number of buildings
\* divided by batch_size and rounded up, and it is the total the progress
\* callback is given.
C22_BatchPartition ==
    /\ Len(Handed) <= Len(buildings_with_bbox)
    /\ \A i \in DOMAIN Handed : Handed[i] = buildings_with_bbox[i]
    /\ \A k \in DOMAIN submitted :
        /\ Len(submitted[k]) >= 1
        /\ Len(submitted[k]) <= batch_size
        /\ k < Len(submitted) => Len(submitted[k]) = batch_size
    /\ \A i \in DOMAIN progress : progress[i][2] * batch_size >= Len(buildings_with_bbox)
    /\ \A i \in DOMAIN progress : (progress[i][2] - 1) * batch_size < Len(buildings_with_bbox)
    /\ Ended =>
        /\ Len(Handed) = Len(buildings_with_bbox)
        /\ Len(submitted) * batch_size >= Len(buildings_with_bbox)
        /\ (Len(submitted) - 1) * batch_size < Len(buildings_with_bbox)
        /\ \A i \in DOMAIN progress : progress[i][2] = Len(submitted)

\* analyze_tile has returned after several batches, the last one short.
C22_Witness ==
    /\ pc = "done"
    /\ Len(submitted) >= 2
    /\ Len(submitted[Len(submitted)]) < batch_size
    /\ Len(progress) = Len(submitted)

\* The pixel box b lies in the image and is at least MinBoxSize wide and
\* high.
ValidBox(b) ==
    /\ b.x1 \in Int /\ b.x2 \in Int /\ b.y1 \in Int /\ b.y2 \in Int
    /\ 0 <= b.x1 /\ b.x1 < b.x2 /\ b.x2 <= img_w
    /\ 0 <= b.y1 /\ b.y1 < b.y2 /\ b.y2 <= img_h
    /\ b.x2 - b.x1 >= MinBoxSize
    /\ b.y2 - b.y1 >= MinBoxSize

\* C23: every building handed to classify_batch, and every building of the
\* projected list, has an integer pixel box inside the image with
\* x1 < x2, y1 < y2 and a width and a height of 5 pixels or more.
C23_PixelBox ==
    label_data # NoDocument =>
        /\ \A i \in DOMAIN buildings_with_bbox : ValidBox(buildings_with_bbox[i])
        /\ \A i \in DOMAIN Handed : ValidBox(Handed[i])

\* A batch was handed to classify_batch for a document one of whose
\* polygons was dropped for its tiny box, with a box off the image's edge.
C23_Witness ==
    /\ label_data # NoDocument
    /\ Handed # <<>>
    /\ Len(parsed_polygons) > Len(buildings_with_bbox)
    /\ \E i \in DOMAIN Handed : Handed[i].x1 > 0

\* C24: with a positive latitude range, a vertex at max_lat is projected
\* to row 0 and a vertex at min_lat to row img_h, and of two vertices the
\* one of higher latitude never gets the larger row; a vertex at min_lng is
\* projected to column 0, one at max_lng to column img_w, and of two
\* vertices the one of higher longitude never gets the smaller column.
\* (px_coords holds rows times lat_range and columns times lng_range.)
C24_LatitudeInversion ==
    (pc = "projected" /\ lat_range > 0 /\ lng_range > 0) =>
        \A i, j \in DOMAIN vertices :
            /\ vertices[i][2] = max_lat => px_coords[i][2] = 0
            /\ vertices[i][2] = min_lat => px_coords[i][2] = img_h * lat_range
            /\ vertices[i][2] > vertices[j][2] => px_coords[i][2] <= px_coords[j][2]
            /\ vertices[i][1] = min_lng => px_coords[i][1] = 0
            /\ vertices[i][1] = max_lng => px_coords[i][1] = img_w * lng_range
            /\ vertices[i][1] > vertices[j][1] => px_coords[i][1] >= px_coords[j][1]

\* Two vertices were projected, one at the north-west corner of the bounds
\* and one at their south-east corner.
C24_Witness ==
    /\ pc = "projected"
    /\ vertices[1] = <<min_lng, max_lat>>
    /\ vertices[2] = <<max_lng, min_lat>>
    /\ px_coords[1] = <<0, 0>>

\* A quotient num / den (den positive) is less than one away from target.
WithinOne(num, den, target) ==
    /\ num - target * den < den
    /\ target * den - num < den

\* The tile of the scenario with its two vertices.
Scenario ==
    /\ <<min_lng, max_lng, min_lat, max_lat>> = <<-90900, -90860, 14460, 14490>>
    /\ <<img_w, img_h>> = <<1024, 1024>>
    /\ vertices = <<(<<-90880, 14475>>), (<<-90895, 14485>>)>>

\* C26: with bounds lng [-90.90, -90.86], lat [14.46, 14.49] and a
\* 1024 x 1024 image, (lng -90.88, lat 14.475) is projected to pixel
\* (512, 512) and (lng -90.895, lat 14.485) to pixel (128, 171), each
\* within one pixel.
C26_ProjectionScenario ==
    (pc = "projected" /\ Scenario) =>
        /\ WithinOne(px_coords[1][1], lng_range, 512)
        /\ WithinOne(px_coords[1][2], lat_range, 512)
        /\ WithinOne(px_coords[2][1], lng_range, 128)
        /\ WithinOne(px_coords[2][2], lat_range, 171)

\* The two vertices of the scenario were projected; the second row is not
\* a whole number of pixels.
C26_Witness ==
    /\ pc = "projected"
    /\ Scenario
    /\ Len(px_coords) = 2
    /\ px_coords[2][2] % lat_range # 0

\* The raw extent of the parsed polygons on each axis.
RawLng == [lo |-> SeqMin(all_lngs(parsed_polygons)), hi |-> SeqMax(all_lngs(parsed_polygons))]
RawLat == [lo |-> SeqMin(all_lats(parsed_polygons)), hi |-> SeqMax(all_lats(parsed_polygons))]

Abs(x) == IF x >= 0 THEN x ELSE -x

\* The bounds b are the raw extent expanded on each side by m / MarginDen
\* times the raw range (b is in 1 / MarginDen).
Expanded(b, m) ==
    LET lng == RawLng
        lat == RawLat
    IN  /\ MarginDen * lng.lo - b.min_lng = m * (lng.hi - lng.lo)
        /\ b.max_lng - MarginDen * lng.hi = m * (lng.hi - lng.lo)
        /\ MarginDen * lat.lo - b.min_lat = m * (lat.hi - lat.lo)
        /\ b.max_lat - MarginDen * lat.hi = m * (lat.hi - lat.lo)
        /\ b.max_lng - b.min_lng = (MarginDen + 2 * m) * (lng.hi - lng.lo)
        /\ b.max_lat - b.min_lat = (MarginDen + 2 * m) * (lat.hi - lat.lo)
        /\ b.min_lng + b.max_lng = MarginDen * (lng.lo + lng.hi)
        /\ b.min_lat + b.max_lat = MarginDen * (lat.lo + lat.hi)

\* The ranges of b are strictly larger than those of a.
LargerRanges(a, b) ==
    /\ b.max_lng - b.min_lng > a.max_lng - a.min_lng
    /\ b.max_lat - b.min_lat > a.max_lat - a.min_lat

\* No edge of the box b is farther from the image centre than the same
\* edge of the box a (distances doubled).
NoFarther(a, b) ==
    /\ Abs(2 * b.x1 - img_w) <= Abs(2 * a.x1 - img_w)
    /\ Abs(2 * b.x2 - img_w) <= Abs(2 * a.x2 - img_w)
    /\ Abs(2 * b.y1 - img_h) <= Abs(2 * a.y1 - img_h)
    /\ Abs(2 * b.y2 - img_h) <= Abs(2 * a.y2 - img_h)

\* The box b is wider and higher than the box a by at most d pixels.
LargerByAtMost(a, b, d) ==
    /\ b.x2 - b.x1 <= a.x2 - a.x1 + d
    /\ b.y2 - b.y1 <= a.y2 - a.y1 + d

ParsedAsBare == json_value = loads(<<wrapped.payload>>)

\* C27 as stated: a payload without a fence marker, wrapped in a fence of
\* either kind with any text before the opening fence and after the
\* closing fence, parses to the value of the bare payload.
C27_FenceStripping ==
    (pc = "parsed" /\ wrapped.fence \in {"json", "plain"}) => ParsedAsBare

\* C27, amended: the same for a json fence when the text before it holds no
\* json fence marker and the text after the closing fence does not begin
\* with a backtick, and for a plain fence when the text before it holds no
\* backtick and the whole response holds no json fence marker.
C27_FenceStrippingPlainText ==
    pc = "parsed" =>
        /\ ( /\ wrapped.fence = "json"
             /\ ~Contains(wrapped.before, JsonFence)
             /\ (wrapped.after = <<>> \/ Head(wrapped.after) # "tick") )
              => ParsedAsBare
        /\ ( /\ wrapped.fence = "plain"
             /\ ~Contains(wrapped.before, <<"tick">>)
             /\ ~Contains(response_text, JsonFence) )
              => ParsedAsBare

\* A payload between blanks in a plain fence, with text before it and text
\* with a fence marker after it, was parsed to the payload's value.
C27_Witness ==
    /\ pc = "parsed"
    /\ wrapped.fence = "plain"
    /\ wrapped.before = <<"x">>
    /\ Contains(wrapped.after, Fence)
    /\ Contains(response_text, <<" ">>)
    /\ json_value = [value |-> wrapped.payload]

\* C28: every record analyze_tile returns with damage un-classified was
\* made by analyze_tile itself, with confidence 0: no record of the response
\* is returned with that damage.
C28_SentinelOnlySynthesized ==
    pc = "done" =>
        \A i \in DOMAIN all_results :
            all_results[i].damage = "un-classified" =>
                /\ ~FromResponse(all_results[i])
                /\ all_results[i].confidence = 0

\* C29: in _call_gemini every wait is followed by another call of the
\* service for the same request: a wait is the last thing logged only while
\* the loop still has an attempt to make, never once the function has
\* returned or raised.
C29_NoWaitWithoutAttempt ==
    \A i \in DOMAIN log :
        ~IsCall(log[i]) =>
            IF i < Len(log)
            THEN IsCall(log[i + 1]) /\ log[i + 1].call = contents
            ELSE call_state = "running"

\* C30: after one run or more of strip_labels over the same directories,
\* every file of GROUND_TRUTH_DIR has the subtype every polygon had before
\* the first run and the file of that name in FEMA_DIR has none; as both
\* are fixed by the files before the first run, a second run changes the
\* content of neither directory.
C30_GroundTruthSurvives ==
    runs >= 1 =>
        /\ DOMAIN GROUND_TRUTH_DIR = DOMAIN originals
        /\ DOMAIN FEMA_DIR = DOMAIN originals
        /\ \A f \in DOMAIN originals :
              /\ GROUND_TRUTH_DIR[f] = originals[f]
              /\ FEMA_DIR[f] = stripped(originals[f])

====
